---- MODULE Spec2Model ----
(***************************************************************************)
(* Fitting orchestration, results extraction and hyperparameter editing of *)
(* keypoint_moseq/fitting.py.                                              *)
(*                                                                         *)
(* Four operations are modelled,  each under its own specification:        *)
(*   SpecFit      fit_model        (fitting.py 54-176)                     *)
(*   SpecExtract  extract_results  (fitting.py 180-256)                    *)
(*   SpecApply    apply_model      (fitting.py 259-341)                    *)
(*   SpecHyp      update_hypparams (fitting.py 345-392)                    *)
(* SpecFitFair is SpecFit with the fairness of a running interpreter.      *)
(* Python's None, True and False are the strings "None", "True", "False"   *)
(* where an argument can hold any of them; iteration keys f'{i}' are kept  *)
(* as the integers they print (decimal printing is injective).             *)
(***************************************************************************)
EXTENDS Integers, Sequences, FiniteSets, TLC

VARIABLES
    mode,                      \* which operation this behaviour runs
    pc,                        \* position inside the running operation
    cfg,                       \* the call's arguments
    model,                     \* fit_model: local `model`
    iteration,                 \* fit_model: loop index
    name,                      \* fit_model: local `name`
    generate_progress_plots,   \* fit_model: local flag (after line 142)
    parallel_message_passing,  \* fit_model: resolved flag (line 159)
    ckpt,                      \* checkpoint.h5 at {project_dir}/{name}
    ret,                       \* value returned by the call, <<>> before
    stop,                      \* how the call ended
    log,                       \* history: calls made and advisories emitted
    adopted,                   \* history: iteration -> state adopted by it
    art,                       \* extract_results: results.h5 at `path`
    artBefore,                 \* history: results.h5 before the latest call
    results,                   \* extract_results: the returned results_dict
    ncalls,                    \* history: calls of extract_results made
    hypparams,                 \* update_hypparams: model_dict['hypparams']
    not_updated,               \* update_hypparams: local list
    gi,                        \* update_hypparams: index of the group scanned
    ki                         \* update_hypparams: index of the kwarg scanned

fitVars == <<model, iteration, name, generate_progress_plots,
             parallel_message_passing, ckpt, adopted>>

exVars == <<art, artBefore, results, ncalls>>

hypVars == <<hypparams, not_updated, gi, ki>>

None == "None"

----------------------------------------------------------------------------
(* Bounds of the model *)

MaxIters == 4      \* num_iters ranges over 0..MaxIters
MaxStart == 1      \* start_iter ranges over 0..MaxStart
MaxEvery == 2      \* save_every_n_iters ranges over 0..MaxEvery
MaxLen == 3        \* time length of a row of states['x'] ranges over 1..MaxLen
MaxLags == 2       \* nlags ranges over 0..MaxLags
MaxRecs == 2       \* recordings per batch range over 1..MaxRecs
MaxCalls == 2      \* successive calls of extract_results
MaxKwargs == 2     \* keyword arguments of update_hypparams: 0..MaxKwargs
MaxApply == 2      \* num_iters of apply_model ranges over 0..MaxApply

----------------------------------------------------------------------------
(* Model states.  A state is identified by the number of resampling steps  *)
(* that produced it and carries the set of its leaves that hold a          *)
(* non-finite value.                                                       *)

Leaves == {"states", "params"}

InitModel == [id |-> 0, nan |-> {}]

\* a snapshot left in an artifact by an earlier run
OldModel == [id |-> 0 - 1, nan |-> {}]

\* what a failed write can leave under a path
Partial == [id |-> 0 - 2, nan |-> {}]

\* jax_moseq.utils.check_for_nans: any leaf with a non-finite value
check_for_nans(m) == m.nan # {}

\* jax_moseq resample_model: a new state derived from the previous one;
\* `bad` is the set of leaves the step left non-finite
resample_model(m, bad) == [id |-> m.id + 1, nan |-> bad]

\* The ways a call of resample_model can end
ResampleOutcomes ==
    [kind : {"return"}, bad : SUBSET Leaves]
        \cup [kind : {"KeyboardInterrupt", "fault"}, bad : {{}}]

\* how the log names an outcome of resample_model
OutcomeName(o) ==
    IF o.kind # "return" THEN o.kind
    ELSE IF o.bad = {} THEN "clean" ELSE "nonfinite"

\* _wrapped_resample without the check of lines 26-36: whatever
\* resample_model returns is handed back
WrappedResampleUnchecked(m, o) ==
    IF o.kind = "KeyboardInterrupt"
    THEN [kind |-> "StopResampling", why |-> "cancelled", model |-> m]
    ELSE IF o.kind = "fault"
    THEN [kind |-> "raise", why |-> "fault", model |-> m]
    ELSE [kind |-> "ok", why |-> "clean", model |-> resample_model(m, o.bad)]

\* _wrapped_resample without the handler of lines 22-24: the interruption
\* leaves the call as it came
WrappedResampleUncaught(m, o) ==
    IF o.kind \in {"KeyboardInterrupt", "fault"}
    THEN [kind |-> "raise", why |-> o.kind, model |-> m]
    ELSE LET new == resample_model(m, o.bad) IN
         IF check_for_nans(new)
         THEN [kind |-> "StopResampling", why |-> "diverged", model |-> new]
         ELSE [kind |-> "ok", why |-> "clean", model |-> new]

\* _wrapped_resample with line 38 returning the state it was called with
\* in place of the state resample_model returned
WrappedResampleStale(m, o) ==
    IF o.kind = "KeyboardInterrupt"
    THEN [kind |-> "StopResampling", why |-> "cancelled", model |-> m]
    ELSE IF o.kind = "fault"
    THEN [kind |-> "raise", why |-> "fault", model |-> m]
    ELSE LET new == resample_model(m, o.bad) IN
         IF check_for_nans(new)
         THEN [kind |-> "StopResampling", why |-> "diverged", model |-> new]
         ELSE [kind |-> "ok", why |-> "clean", model |-> m]

\* _wrapped_resample with `except Exception` in place of the handler of
\* line 23: a fault of resample_model ends the fit like an interruption
WrappedResampleCatchAll(m, o) ==
    IF o.kind \in {"KeyboardInterrupt", "fault"}
    THEN [kind |-> "StopResampling", why |-> "cancelled", model |-> m]
    ELSE LET new == resample_model(m, o.bad) IN
         IF check_for_nans(new)
         THEN [kind |-> "StopResampling", why |-> "diverged", model |-> new]
         ELSE [kind |-> "ok", why |-> "clean", model |-> new]

\* _wrapped_resample (lines 19-38): the new model, StopResampling, or an
\* exception that is not caught
_wrapped_resample(m, o) ==
    IF o.kind = "KeyboardInterrupt"
    THEN [kind |-> "StopResampling", why |-> "cancelled", model |-> m]
    ELSE IF o.kind = "fault"
    THEN [kind |-> "raise", why |-> "fault", model |-> m]
    ELSE LET new == resample_model(m, o.bad) IN
         IF check_for_nans(new)
         THEN [kind |-> "StopResampling", why |-> "diverged", model |-> new]
         ELSE [kind |-> "ok", why |-> "clean", model |-> new]

\* Python's True and False as the arguments of fit_model hold them
PyBoolean(b) == IF b THEN "True" ELSE "False"

\* _set_parallel_flag with the test of line 45 inverted
SetParallelFlagInverted(flag, backend) ==
    IF flag = "force" THEN [value |-> "True", warn |-> FALSE]
    ELSE IF flag = None THEN [value |-> PyBoolean(backend = "cpu"), warn |-> FALSE]
    ELSE IF flag = "True" /\ backend = "cpu" THEN [value |-> "True", warn |-> TRUE]
    ELSE [value |-> PyBoolean(flag = "True"), warn |-> FALSE]

\* _set_parallel_flag (lines 41-51): the resolved flag and whether the
\* CPU advisory is emitted
_set_parallel_flag(flag, backend) ==
    IF flag = "force" THEN [value |-> "True", warn |-> FALSE]
    ELSE IF flag = None THEN [value |-> PyBoolean(backend # "cpu"), warn |-> FALSE]
    ELSE IF flag = "True" /\ backend = "cpu" THEN [value |-> "True", warn |-> TRUE]
    ELSE [value |-> PyBoolean(flag = "True"), warn |-> FALSE]

\* lines 170-171 without the `iteration==num_iters` clause
SaveDueNoFinal(c, i) ==
    /\ c.save_every_n_iters > 0
    /\ i > c.start_iter
    /\ i % c.save_every_n_iters = 0

\* lines 170-171 without the `iteration>start_iter` clause
SaveDueFromStart(c, i) ==
    /\ c.save_every_n_iters > 0
    /\ (i % c.save_every_n_iters = 0 \/ i = c.num_iters)

\* lines 170-171 with the final snapshot written whatever the interval is
SaveDueFinalAlways(c, i) ==
    /\ i > c.start_iter
    /\ \/ (c.save_every_n_iters > 0 /\ i % c.save_every_n_iters = 0)
       \/ i = c.num_iters

\* lines 170-171: does iteration i write a snapshot
SaveDue(c, i) ==
    /\ c.save_every_n_iters > 0
    /\ i > c.start_iter
    /\ (i % c.save_every_n_iters = 0 \/ i = c.num_iters)

\* keypoint_moseq.io.save_hdf5(path, tree, datapath): add or overwrite the
\* sub-path, siblings kept
save_hdf5(file, key, tree) ==
    [file EXCEPT !.model_snapshots =
        [k \in DOMAIN file.model_snapshots \cup {key} |->
            IF k = key THEN tree ELSE file.model_snapshots[k]]]

\* no file at the checkpoint path
NoFile ==
    [exists |-> FALSE, model_snapshots |-> [k \in {} |-> 0],
     metadata |-> None, data |-> None]

\* lines 147-153 with the test of line 153 left out: the artifact is
\* created whenever snapshots are saved
CreateDueAlways(c, file) == c.save_every_n_iters > 0

\* lines 147 and 153: does fit_model create the artifact before the loop
CreateDue(c, file) == c.save_every_n_iters > 0 /\ ~file.exists

\* lines 154-157: the artifact fit_model creates
NewCheckpoint(c, m) ==
    [exists |-> TRUE, model_snapshots |-> [k \in {c.start_iter} |-> m],
     metadata |-> "metadata", data |-> "data"]

\* an artifact left at the run's location by an earlier run
OldCheckpoint ==
    [exists |-> TRUE, model_snapshots |-> [k \in {0} |-> OldModel],
     metadata |-> "old_metadata", data |-> "old_data"]

----------------------------------------------------------------------------
(* fit_model *)

ExampleCfg ==
    [num_iters |-> 20, start_iter |-> 0, save_every_n_iters |-> 5,
     generate_progress_plots |-> TRUE, project_dir |-> "project",
     name |-> "run", parallel_message_passing |-> None, backend |-> "cpu",
     existing |-> FALSE]

FitConfigs ==
    [num_iters : 0..MaxIters, start_iter : 0..MaxStart,
     save_every_n_iters : 0..MaxEvery,
     generate_progress_plots : BOOLEAN, project_dir : {None, "project"},
     name : {None, "run"},
     parallel_message_passing : {None, "force", "True", "False"},
     backend : {"cpu", "gpu"},
     existing : BOOLEAN]
        \cup {ExampleCfg}

\* the variables of extract_results while another operation runs
IdleExtract ==
    /\ art = <<>> /\ artBefore = <<>> /\ results = <<>> /\ ncalls = 0

\* the variables of update_hypparams while another operation runs
IdleHyp ==
    /\ hypparams = <<>> /\ not_updated = <<>> /\ gi = 0 /\ ki = 0

InitFit ==
    /\ mode = "fit"
    /\ pc = "start"
    /\ cfg \in FitConfigs
    /\ model = InitModel
    /\ iteration = cfg.start_iter
    /\ name = cfg.name
    /\ generate_progress_plots = cfg.generate_progress_plots
    /\ parallel_message_passing = cfg.parallel_message_passing
    /\ ckpt = IF cfg.existing THEN OldCheckpoint ELSE NoFile
    /\ ret = <<>>
    /\ stop = None
    /\ log = <<>>
    /\ adopted = <<>>
    /\ IdleExtract
    /\ IdleHyp

\* the advisories lines 137-159 emit, in order, closed by the record that
\* _set_parallel_flag has returned
StartAdvisories(c) ==
    (IF c.generate_progress_plots /\ c.save_every_n_iters = 0
     THEN <<[op |-> "warn", what |-> "no_plots", it |-> c.start_iter]>>
     ELSE <<>>)
    \o
    (IF _set_parallel_flag(c.parallel_message_passing, c.backend).warn
     THEN <<[op |-> "warn", what |-> "cpu_jit", it |-> c.start_iter]>>
     ELSE <<>>)
    \o <<[op |-> "flag", what |-> "resolved", it |-> c.start_iter]>>

\* lines 137-160: everything before the loop
FitStart ==
    /\ mode = "fit" /\ pc = "start"
    /\ name' = IF cfg.name = None THEN "timestamp" ELSE cfg.name
    /\ generate_progress_plots' =
          (cfg.generate_progress_plots /\ cfg.save_every_n_iters # 0)
    /\ IF cfg.save_every_n_iters > 0 /\ cfg.project_dir = None
       THEN \* os.path.join(None, name) raises TypeError
            /\ pc' = "raised" /\ stop' = "TypeError"
            /\ log' = <<>>
            /\ UNCHANGED <<ckpt, parallel_message_passing>>
       ELSE IF CreateDue(cfg, ckpt)
       THEN \E ok \in BOOLEAN :
              IF ok
              THEN /\ ckpt' = NewCheckpoint(cfg, model)
                   /\ parallel_message_passing' =
                        _set_parallel_flag(cfg.parallel_message_passing, cfg.backend).value
                   /\ log' = <<[op |-> "save", what |-> "init", it |-> cfg.start_iter]>>
                                \o StartAdvisories(cfg)
                   /\ pc' = "iter" /\ UNCHANGED stop
              ELSE \* the write fails: nothing or an incomplete artifact is left
                   /\ ckpt' \in {NoFile, NewCheckpoint(cfg, Partial)}
                   /\ log' = <<>>
                   /\ pc' = "raised" /\ stop' = "IOError"
                   /\ UNCHANGED parallel_message_passing
       ELSE /\ parallel_message_passing' =
                  _set_parallel_flag(cfg.parallel_message_passing, cfg.backend).value
            /\ log' = StartAdvisories(cfg)
            /\ pc' = "iter" /\ UNCHANGED <<ckpt, stop>>
    /\ UNCHANGED <<mode, cfg, model, iteration, ret, adopted, exVars, hypVars>>

\* line 162 as trange(start_iter, num_iters): the last index left out
LoopDoneExclusive(c, i) == i >= c.num_iters

\* line 162: trange(start_iter, num_iters+1) is exhausted at index i
LoopDone(c, i) == i > c.num_iters

\* after iteration i: on to the save, or to the next index
AfterResample(c, i) == IF SaveDue(c, i) THEN "save" ELSE "iter"

\* lines 162-168 and 176: the loop head, one resampling step, the return
FitIterate ==
    /\ mode = "fit" /\ pc = "iter"
    /\ IF LoopDone(cfg, iteration)
       THEN /\ pc' = "done" /\ stop' = "completed"
            /\ ret' = <<model, name>>
            /\ UNCHANGED <<model, iteration, log, adopted>>
       ELSE \E o \in ResampleOutcomes :
            LET r == _wrapped_resample(model, o)
                call == [op |-> "resample", what |-> OutcomeName(o), it |-> iteration]
            IN
            CASE r.kind = "ok" ->
                   /\ model' = r.model
                   /\ adopted' = adopted @@ (iteration :> r.model)
                   /\ log' = Append(log, call)
                   /\ pc' = AfterResample(cfg, iteration)
                   /\ iteration' = IF SaveDue(cfg, iteration)
                                   THEN iteration ELSE iteration + 1
                   /\ UNCHANGED <<ret, stop>>
              [] r.kind = "StopResampling" ->
                   /\ pc' = "done" /\ stop' = r.why
                   /\ ret' = <<model, name>>
                   /\ log' = log \o <<call>> \o
                        (IF r.why = "diverged"
                         THEN <<[op |-> "warn", what |-> "nans", it |-> iteration]>>
                         ELSE <<>>)
                   /\ UNCHANGED <<model, iteration, adopted>>
              [] r.kind = "raise" ->
                   /\ pc' = "raised" /\ stop' = r.why
                   /\ log' = Append(log, call)
                   /\ UNCHANGED <<model, iteration, ret, adopted>>
    /\ UNCHANGED <<mode, cfg, name, generate_progress_plots,
                   parallel_message_passing, ckpt, exVars, hypVars>>

\* line 172: the snapshot write of a due iteration
FitSave ==
    /\ mode = "fit" /\ pc = "save"
    /\ \E ok \in BOOLEAN :
         IF ok
         THEN /\ ckpt' = save_hdf5(ckpt, iteration, model)
              /\ log' = Append(log, [op |-> "save", what |-> "loop", it |-> iteration])
              /\ pc' = IF generate_progress_plots THEN "plot" ELSE "iter"
              /\ iteration' = IF generate_progress_plots
                              THEN iteration ELSE iteration + 1
              /\ UNCHANGED stop
         ELSE /\ ckpt' \in {ckpt, save_hdf5(ckpt, iteration, Partial)}
              /\ pc' = "raised" /\ stop' = "IOError"
              /\ UNCHANGED <<log, iteration>>
    /\ UNCHANGED <<mode, cfg, model, name, generate_progress_plots,
                   parallel_message_passing, ret, adopted, exVars, hypVars>>

\* lines 173-174: the progress figure of a saved iteration
FitPlot ==
    /\ mode = "fit" /\ pc = "plot"
    /\ \E ok \in BOOLEAN :
         IF ok
         THEN /\ log' = Append(log, [op |-> "plot", what |-> "ok", it |-> iteration])
              /\ pc' = "iter" /\ iteration' = iteration + 1
              /\ UNCHANGED stop
         ELSE /\ log' = Append(log, [op |-> "plot", what |-> "failed", it |-> iteration])
              /\ pc' = "raised" /\ stop' = "PlotError"
              /\ UNCHANGED iteration
    /\ UNCHANGED <<mode, cfg, model, name, generate_progress_plots,
                   parallel_message_passing, ckpt, ret, adopted, exVars, hypVars>>

vars == <<mode, pc, cfg, ret, stop, log, fitVars, exVars, hypVars>>

NextFit == FitStart \/ FitIterate \/ FitSave \/ FitPlot

SpecFit == InitFit /\ [][NextFit]_vars

\* what every step of fit_model changes: where the call is, what it has
\* done, what it has written
fitProgress == <<pc, iteration, log, ckpt>>

\* fit_model runs in one thread of the interpreter, which goes on to the
\* next statement as long as there is one
SpecFitFair == InitFit /\ [][NextFit]_vars /\ WF_fitProgress(NextFit)

----------------------------------------------------------------------------
(* extract_results *)

Min(a, b) == IF a <= b THEN a ELSE b

\* row r of a batched array of time length n: every entry is distinct
BatchRow(leaf, r, n) == [t \in 1..n |-> <<leaf, r, t>>]

\* model['states'] for nrec recordings, rows of x of length len, nlags lags
States(nrec, len, nlags) ==
    [x |-> [r \in 1..nrec |-> BatchRow("x", r, len)],
     z |-> [r \in 1..nrec |-> BatchRow("z", r, len - nlags)],
     v |-> [r \in 1..nrec |-> BatchRow("v", r, len)],
     h |-> [r \in 1..nrec |-> BatchRow("h", r, len)]]

\* the time length arr.shape[1] of a batched array
Shape1(arr) == Len(arr[1])

RecordingName(r) == <<"recording", r>>

\* the (start, end) pairs with 0 <= start <= end <= len
BoundsOf(len) == {b \in (0..len) \X (0..len) : b[1] <= b[2]}

\* Python's row[start:end]
Slice(row, start, end) == SubSeq(row, start + 1, Min(end, Len(row)))

\* jax_moseq.utils.unbatch: row r trimmed to its bounds, keyed by keys[r]
unbatch(arr, keys, bounds) ==
    [k \in {keys[r] : r \in DOMAIN keys} |->
        LET r == CHOOSE q \in DOMAIN keys : keys[q] = k
        IN Slice(arr[r], bounds[r][1], bounds[r][2])]

\* line 236: bounds + np.array([0, nlags])
ShiftBounds(bounds, nlags) ==
    [r \in DOMAIN bounds |-> <<bounds[r][1] + 0, bounds[r][2] + nlags>>]

\* np.pad(a, (n, 0), mode='edge') raises ValueError on an empty array that
\* is to be extended
PadRaises(a, n) == a = <<>> /\ n > 0

\* np.pad(a, (n, 0), mode='edge')
PadEdge(a, n) == IF n = 0 THEN a ELSE [i \in 1..n |-> a[1]] \o a

\* line 237: np.pad(z[nlags:], (nlags, 0), mode='edge')
PadSyllables(z, nlags) == PadEdge(SubSeq(z, nlags + 1, Len(z)), nlags)

\* the arguments of extract_results; model['states'] is given by its shape
\* (States below), the metadata by keys and bounds
Call(nrec, len, nlags, bounds, save) ==
    [nrec |-> nrec, len |-> len, nlags |-> nlags,
     keys |-> [r \in 1..nrec |-> RecordingName(r)],
     bounds |-> bounds, save_results |-> save]

\* model['states'] of a call
StatesOf(c) == States(c.nrec, c.len, c.nlags)

\* one recording with bounds (10, 50), nlags = 5 and rows long enough for
\* the shifted bounds
ExampleCall == Call(1, 60, 5, <<<<10, 50>>>>, TRUE)

\* line 235
Nlags(c) == Shape1(StatesOf(c).x) - Shape1(StatesOf(c).z)

\* line 236: the label rows trimmed over the shifted bounds
TrimmedLabels(c) ==
    unbatch(StatesOf(c).z, c.keys, ShiftBounds(c.bounds, Nlags(c)))

\* line 237 raises for some recording
ExtractRaises(c) ==
    \E k \in DOMAIN TrimmedLabels(c) :
        PadRaises(SubSeq(TrimmedLabels(c)[k], Nlags(c) + 1, Len(TrimmedLabels(c)[k])),
                  Nlags(c))

\* lines 231-250: the results_dict of a call in which line 237 does not raise
ResultsDict(c) ==
    LET syllables == [k \in DOMAIN TrimmedLabels(c) |->
                         PadSyllables(TrimmedLabels(c)[k], Nlags(c))]
        latent_state == unbatch(StatesOf(c).x, c.keys, c.bounds)
        centroid == unbatch(StatesOf(c).v, c.keys, c.bounds)
        heading == unbatch(StatesOf(c).h, c.keys, c.bounds)
    IN [k \in DOMAIN syllables |->
           [syllable |-> syllables[k],
            latent_state |-> latent_state[k],
            centroid |-> centroid[k],
            heading |-> heading[k]]]

\* line 252 taken whatever `save_results` is
SaveAlways(c) == TRUE

\* line 252: is the results_dict written to disk
SaveRequested(c) == c.save_results

\* keypoint_moseq.io.save_hdf5 with an append in place of the overwrite of
\* an existing sub-path
SaveDictAppending(file, dict) ==
    [k \in DOMAIN file \cup DOMAIN dict |->
        IF k \notin DOMAIN dict THEN file[k]
        ELSE IF k \notin DOMAIN file THEN dict[k]
        ELSE [f \in DOMAIN dict[k] |-> file[k][f] \o dict[k][f]]]

\* keypoint_moseq.io.save_hdf5(path, dict): every top-level key of dict is
\* added or overwritten, the other keys of the file are kept.  A file that
\* does not exist is the file without keys.
save_hdf5_dict(file, dict) ==
    [k \in DOMAIN file \cup DOMAIN dict |->
        IF k \in DOMAIN dict THEN dict[k] ELSE file[k]]

\* a record left in results.h5 by an earlier extraction
OldRecord ==
    [syllable |-> <<"old">>, latent_state |-> <<"old">>,
     centroid |-> <<"old">>, heading |-> <<"old">>]

\* what results.h5 can hold before the call: nothing, another recording,
\* or an older record of the first recording
OldArtifacts ==
    {<<>>,
     [k \in {RecordingName(0)} |-> OldRecord],
     [k \in {RecordingName(0), RecordingName(1)} |-> OldRecord]}

\* the calls a behaviour can start from: every shape within the bounds
\* with every metadata with 0 <= start <= end <= row length, and the example
IsExtractCall(c) ==
    \/ \E len \in 1..MaxLen, nrec \in 1..MaxRecs, save \in BOOLEAN :
       \E nlags \in 0..Min(MaxLags, len - 1) :
       \E bounds \in [1..nrec -> BoundsOf(len)] :
          c = Call(nrec, len, nlags, bounds, save)
    \/ c = ExampleCall

InitExtract ==
    /\ mode = "extract"
    /\ pc = "start"
    /\ IsExtractCall(cfg)
    /\ art \in OldArtifacts
    /\ artBefore = art
    /\ results = <<>>
    /\ ncalls = 0
    /\ ret = <<>> /\ stop = None /\ log = <<>>
    /\ model = InitModel /\ iteration = 0 /\ name = None
    /\ generate_progress_plots = FALSE /\ parallel_message_passing = None
    /\ ckpt = NoFile /\ adopted = <<>>
    /\ IdleHyp

\* lines 228-256: one call of extract_results; the model state and the
\* metadata are the same in every call of a behaviour
ExtractResults ==
    /\ mode = "extract" /\ pc \in {"start", "returned"}
    /\ ncalls < MaxCalls
    /\ ncalls' = ncalls + 1
    /\ artBefore' = art
    /\ IF ExtractRaises(cfg)
       THEN /\ pc' = "raised" /\ stop' = "ValueError"
            /\ UNCHANGED <<art, results>>
       ELSE /\ pc' = "returned"
            /\ results' = ResultsDict(cfg)
            /\ art' = IF SaveRequested(cfg)
                      THEN save_hdf5_dict(art, ResultsDict(cfg)) ELSE art
            /\ UNCHANGED stop
    /\ UNCHANGED <<mode, cfg, ret, log, fitVars, hypVars>>

NextExtract == ExtractResults

SpecExtract == InitExtract /\ [][NextExtract]_vars

----------------------------------------------------------------------------
(* apply_model *)

\* jax_moseq init_model(data, params, hypparams): a fresh state made from
\* the data and the given parameters
init_model(m) == InitModel

\* extract_results reads model['states']: the arrays of state m are the
\* arrays of the call's shape with every entry stamped by m, and trimming
\* and padding move entries without changing them
ExtractOf(m, c) ==
    [k \in DOMAIN ResultsDict(c) |->
        [f \in DOMAIN ResultsDict(c)[k] |->
            [t \in DOMAIN ResultsDict(c)[k][f] |->
                <<ResultsDict(c)[k][f][t], m.id>>]]]

\* where the results go: a results_path, project_dir and name, or nothing
Destinations ==
    {[results_path |-> "path", project_dir |-> None, name |-> None],
     [results_path |-> None, project_dir |-> "project", name |-> "run"],
     [results_path |-> None, project_dir |-> None, name |-> "run"]}

\* lines 319-323: the assertion on the destination fails
DestinationMissing(c) ==
    /\ c.save_results /\ c.results_path = None
    /\ (c.project_dir = None \/ c.name = None)

\* the calls of apply_model: one recording with at least one frame, of
\* every shape within the bounds, every destination, num_iters in
\* 0..MaxApply
IsApplyCall(c) ==
    \E len \in 1..MaxLen, save \in BOOLEAN, n \in 0..MaxApply, d \in Destinations,
       flag \in {None, "True"}, backend \in {"cpu", "gpu"}, existing \in BOOLEAN :
    \E nlags \in 0..Min(MaxLags, len - 1) :
    \E bounds \in [1..1 -> {b \in BoundsOf(len) : b[1] < b[2]}] :
       c = [nrec |-> 1, len |-> len, nlags |-> nlags,
            keys |-> [r \in 1..1 |-> RecordingName(r)],
            bounds |-> bounds, save_results |-> save,
            num_iters |-> n, results_path |-> d.results_path,
            project_dir |-> d.project_dir, name |-> d.name,
            parallel_message_passing |-> flag, backend |-> backend,
            existing |-> existing]

InitApply ==
    /\ mode = "apply"
    /\ pc = "start"
    /\ IsApplyCall(cfg)
    /\ model = OldModel
    /\ iteration = 0
    /\ name = cfg.name
    /\ generate_progress_plots = FALSE
    /\ parallel_message_passing = cfg.parallel_message_passing
    /\ ckpt = IF cfg.existing THEN OldCheckpoint ELSE NoFile
    /\ ret = <<>> /\ stop = None /\ log = <<>> /\ adopted = <<>>
    /\ art \in OldArtifacts
    /\ artBefore = art
    /\ results = <<>>
    /\ ncalls = 0
    /\ IdleHyp

\* lines 317-328: the flag, the destination, the fresh state
ApplyStart ==
    /\ mode = "apply" /\ pc = "start"
    /\ LET f == _set_parallel_flag(cfg.parallel_message_passing, cfg.backend) IN
       /\ parallel_message_passing' = f.value
       /\ log' = (IF f.warn
                  THEN <<[op |-> "warn", what |-> "cpu_jit", it |-> 0]>>
                  ELSE <<>>)
                 \o <<[op |-> "flag", what |-> "resolved", it |-> 0]>>
    /\ IF DestinationMissing(cfg)
       THEN /\ pc' = "raised" /\ stop' = "AssertionError"
            /\ UNCHANGED model
       ELSE /\ model' = init_model(model)
            /\ pc' = "iter" /\ UNCHANGED stop
    /\ UNCHANGED <<mode, cfg, iteration, name, generate_progress_plots, ckpt,
                   ret, adopted, exVars, hypVars>>

\* line 330: trange(num_iters) is exhausted at index i
ApplyLoopDone(c, i) == i >= c.num_iters

\* lines 330-338: the loop head and one states-only resampling step
ApplyIterate ==
    /\ mode = "apply" /\ pc = "iter"
    /\ IF ApplyLoopDone(cfg, iteration)
       THEN /\ pc' = "extract" /\ stop' = "completed"
            /\ UNCHANGED <<model, iteration, log, adopted>>
       ELSE \E o \in ResampleOutcomes :
            LET r == _wrapped_resample(model, o)
                call == [op |-> "resample", what |-> OutcomeName(o),
                         it |-> iteration, states_only |-> TRUE]
            IN
            CASE r.kind = "ok" ->
                   /\ model' = r.model
                   /\ adopted' = adopted @@ (iteration :> r.model)
                   /\ log' = Append(log, call)
                   /\ iteration' = iteration + 1
                   /\ UNCHANGED <<pc, stop>>
              [] r.kind = "StopResampling" ->
                   /\ pc' = "extract" /\ stop' = r.why
                   /\ log' = log \o <<call>> \o
                        (IF r.why = "diverged"
                         THEN <<[op |-> "warn", what |-> "nans", it |-> iteration]>>
                         ELSE <<>>)
                   /\ UNCHANGED <<model, iteration, adopted>>
              [] r.kind = "raise" ->
                   /\ pc' = "raised" /\ stop' = r.why
                   /\ log' = Append(log, call)
                   /\ UNCHANGED <<model, iteration, adopted>>
    /\ UNCHANGED <<mode, cfg, name, generate_progress_plots,
                   parallel_message_passing, ckpt, ret, exVars, hypVars>>

\* lines 340-341: the call of extract_results on the state the loop left
ApplyExtract ==
    /\ mode = "apply" /\ pc = "extract"
    /\ ncalls' = ncalls + 1
    /\ artBefore' = art
    /\ IF ExtractRaises(cfg)
       THEN /\ pc' = "raised" /\ stop' = "ValueError"
            /\ UNCHANGED <<art, results, ret>>
       ELSE /\ pc' = "done"
            /\ results' = ExtractOf(model, cfg)
            /\ ret' = <<ExtractOf(model, cfg)>>
            /\ art' = IF SaveRequested(cfg)
                      THEN save_hdf5_dict(art, ExtractOf(model, cfg)) ELSE art
            /\ UNCHANGED stop
    /\ UNCHANGED <<mode, cfg, log, fitVars, hypVars>>

NextApply == ApplyStart \/ ApplyIterate \/ ApplyExtract

SpecApply == InitApply /\ [][NextApply]_vars

----------------------------------------------------------------------------
(* update_hypparams *)

\* Values: Python int, float and bool scalars and arrays.  A float holds its
\* value in halves (n = 5 is 2.5), an int its value, a bool 0 or 1.
PyInt(n) == [t |-> "int", n |-> n]
PyFloatHalves(n) == [t |-> "float", n |-> n]
PyBool(n) == [t |-> "bool", n |-> n]
Array == [t |-> "array", n |-> 0]

\* np.isscalar
isscalar(v) == v.t # "array"

\* isinstance(v, T) for T = type(old_value): bool is a subclass of int
isinstance(v, T) == v.t = T \/ (v.t = "bool" /\ T = "int")

\* T(v): float(v), int(v) (truncation) and bool(v) on non-negative numbers
Cast(T, v) ==
    CASE T = "float" -> PyFloatHalves(IF v.t = "float" THEN v.n ELSE 2 * v.n)
      [] T = "int"   -> PyInt(IF v.t = "float" THEN v.n \div 2 ELSE v.n)
      [] T = "bool"  -> PyBool(IF v.n # 0 THEN 1 ELSE 0)

\* list.remove(k): the list without the first k
Remove(list, k) ==
    LET i == CHOOSE j \in DOMAIN list :
                 list[j] = k /\ \A q \in 1..(j - 1) : list[q] # k
    IN SubSeq(list, 1, i - 1) \o SubSeq(list, i + 1, Len(list))

InList(list, k) == \E j \in DOMAIN list : list[j] = k

\* the groups of model_dict['hypparams'], in iteration order
GroupOrder == <<"trans_hypparams", "ar_hypparams">>

HypKeys == {"kappa", "nlags"}

\* the values a group can hold: 10.0, 3 and an array
OldValues == {PyFloatHalves(20), PyInt(3), Array}

\* the values a call can supply: 5 and 2.5
NewValues == {PyInt(5), PyFloatHalves(5)}

RequestKeys == HypKeys \cup {"foobar"}

\* a group: some of the keys, each with a value
GroupsOver(keys) == UNION {[ks -> OldValues] : ks \in SUBSET keys}

HypTrees == [{GroupOrder[i] : i \in DOMAIN GroupOrder} -> GroupsOver(HypKeys)]

\* **kwargs: distinct keys in call order, each with its new value
KwargsOfLen(n) ==
    {kw \in [1..n -> [k : RequestKeys, v : NewValues]] :
        \A i, j \in 1..n : i # j => kw[i].k # kw[j].k}

Kwargs == UNION {KwargsOfLen(n) : n \in 0..MaxKwargs}

\* line 372
KeysOf(kw) == [i \in DOMAIN kw |-> kw[i].k]

\* line 389 emitting one warning for each key left in the list
NotFoundPerKey(list) ==
    [i \in DOMAIN list |-> [op |-> "warn", what |-> "not_found", it |-> <<list[i]>>]]

\* lines 389-390: the warning that lists the keys left in not_updated
NotFoundAdvisory(list) ==
    IF Len(list) > 0
    THEN <<[op |-> "warn", what |-> "not_found", it |-> list]>>
    ELSE <<>>

\* lines 381-384: the cast warning of an update of key k from old to v
CastAdvisory(k, old, v) ==
    IF ~isinstance(v, old.t)
    THEN <<[op |-> "warn", what |-> "cast", it |-> <<k>>]>>
    ELSE <<>>

InitHyp ==
    /\ mode = "hyp"
    /\ pc = "loop"
    /\ cfg \in [hypparams : HypTrees, kwargs : Kwargs]
    /\ hypparams = cfg.hypparams
    /\ not_updated = KeysOf(cfg.kwargs)
    /\ gi = 1 /\ ki = 1
    /\ ret = <<>> /\ stop = None /\ log = <<>>
    /\ model = InitModel /\ iteration = 0 /\ name = None
    /\ generate_progress_plots = FALSE /\ parallel_message_passing = None
    /\ ckpt = NoFile /\ adopted = <<>>
    /\ IdleExtract

\* lines 374-387: the body of the loops for one group and one kwarg
HypStep ==
    /\ mode = "hyp" /\ pc = "loop"
    /\ gi <= Len(GroupOrder) /\ ki <= Len(cfg.kwargs)
    /\ LET g == GroupOrder[gi]
           k == cfg.kwargs[ki].k
           v == cfg.kwargs[ki].v
           last == ki = Len(cfg.kwargs)
           next == /\ gi' = (IF last THEN gi + 1 ELSE gi)
                   /\ ki' = (IF last THEN 1 ELSE ki + 1)
       IN
       IF k \notin DOMAIN hypparams[g]
       THEN next /\ UNCHANGED <<hypparams, not_updated, log, pc, stop>>
       ELSE LET old_value == hypparams[g][k] IN
            IF ~isscalar(old_value)
            THEN /\ log' = Append(log, [op |-> "print", what |-> "not_scalar",
                                        it |-> <<k>>])
                 /\ next /\ UNCHANGED <<hypparams, not_updated, pc, stop>>
            ELSE /\ log' = log \o CastAdvisory(k, old_value, v)
                 /\ hypparams' = [hypparams EXCEPT ![g][k] = Cast(old_value.t, v)]
                 /\ IF InList(not_updated, k)
                    THEN /\ not_updated' = Remove(not_updated, k)
                         /\ next /\ UNCHANGED <<pc, stop>>
                    ELSE \* list.remove(x): x not in list
                         /\ pc' = "raised" /\ stop' = "ValueError"
                         /\ UNCHANGED <<not_updated, gi, ki>>
    /\ UNCHANGED <<mode, cfg, ret, fitVars, exVars>>

\* lines 389-392: after the loops
HypFinish ==
    /\ mode = "hyp" /\ pc = "loop"
    /\ (gi > Len(GroupOrder) \/ Len(cfg.kwargs) = 0)
    /\ log' = log \o NotFoundAdvisory(not_updated)
    /\ pc' = "done" /\ stop' = "returned"
    /\ ret' = <<hypparams>>
    /\ UNCHANGED <<mode, cfg, fitVars, exVars, hypVars>>

NextHyp == HypStep \/ HypFinish

SpecHyp == InitHyp /\ [][NextHyp]_vars

----------------------------------------------------------------------------
(* Properties of fit_model *)

SnapshotKeys == DOMAIN ckpt.model_snapshots

\* the state a run falls back to when iteration i does not adopt one
LastGood(i) == IF i = cfg.start_iter THEN InitModel ELSE adopted[i - 1]

LogIndex == DOMAIN log

\* the iterations at which the log shows a resampling step ending as `what`
Ended(what) ==
    {log[j].it : j \in {k \in LogIndex :
                            log[k].op = "resample" /\ log[k].what = what}}

\* the keys of the snapshot writes of kind `what` ("init" or "loop")
Written(what) ==
    {log[j].it : j \in {k \in LogIndex :
                            log[k].op = "save" /\ log[k].what = what}}

Completed == mode = "fit" /\ pc = "done" /\ stop = "completed"

ExpectedKeys(c) ==
    {c.start_iter} \cup
    {i \in (c.start_iter + 1)..c.num_iters :
        i % c.save_every_n_iters = 0 \/ i = c.num_iters}

\* C1: a fit run that starts without a checkpoint artifact, has
\* save_every_n_iters > 0 and runs to completion ends with exactly the
\* snapshot keys {start_iter} and every later i <= num_iters that is a
\* multiple of the interval or equals num_iters; for num_iters = 20,
\* start_iter = 0, interval 5 these are {0, 5, 10, 15, 20}.
C1_SnapshotKeys ==
    (Completed /\ ~cfg.existing /\ cfg.save_every_n_iters > 0) =>
        /\ SnapshotKeys = ExpectedKeys(cfg)
        /\ (cfg.num_iters = 20 /\ cfg.start_iter = 0 /\ cfg.save_every_n_iters = 5)
              => SnapshotKeys = {0, 5, 10, 15, 20}

C1_Witness ==
    /\ Completed /\ ~cfg.existing
    /\ cfg.num_iters = 20 /\ cfg.start_iter = 0 /\ cfg.save_every_n_iters = 5
    /\ SnapshotKeys = {0, 5, 10, 15, 20}

\* once the resampling step of iteration d has returned a state with a
\* non-finite leaf: the loop has ended at d and the last clean state is
\* returned
DivergenceStops(d) ==
    /\ pc = "done" /\ stop = "diverged"
    /\ iteration = d
    /\ \A j \in LogIndex : log[j].op = "resample" => log[j].it <= d
    /\ ret = <<LastGood(d), name>>
    /\ ~check_for_nans(ret[1])
    /\ d \notin DOMAIN adopted

\* C2, original wording: after divergence at iteration d no iteration follows, the
\* state of iteration d-1 (the initial state when d = start_iter) is
\* returned, and the run has written no snapshot under key d or a later key.
C2_Original ==
    \A d \in Ended("nonfinite") :
        /\ DivergenceStops(d)
        /\ \A k \in Written("init") \cup Written("loop") : k < d

\* C2: after divergence at iteration d no iteration follows, the
\* state of iteration d-1 (the initial state when d = start_iter) is
\* returned, and the loop has written no snapshot under key d or a later
\* key; the one write the run can have made under a key >= d is the initial
\* snapshot under key start_iter, which holds the state the run started from.
C2_DivergenceStops ==
    \A d \in Ended("nonfinite") :
        /\ DivergenceStops(d)
        /\ \A k \in Written("loop") : k < d
        /\ \A k \in Written("init") :
              /\ k = cfg.start_iter
              /\ ckpt.model_snapshots[k] = InitModel
              /\ k >= d => d = cfg.start_iter

C2_Witness ==
    /\ \E d \in Ended("nonfinite") : d > cfg.start_iter + 1
    /\ Written("loop") # {}
    /\ pc = "done"

\* C3: an interruption during the resampling step of iteration c ends the
\* call with a normal return of (state adopted at iteration c-1, run name);
\* nothing is raised, every snapshot in the store is complete, and none was
\* written for iteration c.
C3_CancelledGracefully ==
    \A c \in Ended("KeyboardInterrupt") :
        /\ pc = "done" /\ stop = "cancelled"
        /\ iteration = c
        /\ ret = <<LastGood(c), name>>
        /\ c \notin DOMAIN adopted
        /\ \A k \in Written("loop") : k < c
        /\ \A k \in SnapshotKeys :
              /\ ckpt.model_snapshots[k] # Partial
              /\ k \in Written("loop") => ckpt.model_snapshots[k] = adopted[k]

C3_Witness ==
    /\ \E c \in Ended("KeyboardInterrupt") : c > cfg.start_iter + 1
    /\ Written("loop") # {}
    /\ pc = "done" /\ stop = "cancelled"

\* the resolution table of the parallelism flag
ExpectedFlag(flag, backend) ==
    CASE flag = "force" -> [value |-> "True", warn |-> FALSE]
      [] flag = None    -> [value |-> IF backend # "cpu" THEN "True" ELSE "False", warn |-> FALSE]
      [] flag = "True"  -> [value |-> "True", warn |-> backend = "cpu"]
      [] flag = "False" -> [value |-> "False", warn |-> FALSE]

FlagResolved == \E j \in LogIndex : log[j].op = "flag"

CpuAdvisories == {j \in LogIndex : log[j].op = "warn" /\ log[j].what = "cpu_jit"}

\* C10: the resolved parallelism flag depends on the requested flag and the
\* backend alone: "force" enables without advisory; unset enables iff the
\* backend is not the CPU; explicit true enables, with the advisory iff the
\* backend is the CPU; explicit false disables without advisory.
C10_ParallelFlag ==
    (mode = "fit" /\ FlagResolved) =>
        LET e == ExpectedFlag(cfg.parallel_message_passing, cfg.backend) IN
        /\ parallel_message_passing = e.value
        /\ Cardinality(CpuAdvisories) = (IF e.warn THEN 1 ELSE 0)

C10_Witness ==
    /\ mode = "fit" /\ FlagResolved
    /\ cfg.parallel_message_passing = "True" /\ cfg.backend = "cpu"
    /\ parallel_message_passing = "True"
    /\ CpuAdvisories # {}

\* the iterations whose progress figure failed
PlotFailed ==
    {log[j].it : j \in {k \in LogIndex :
                            log[k].op = "plot" /\ log[k].what = "failed"}}

\* the keys the loop writes after iteration i in a run that is not stopped
LaterKeys(c, i) == {k \in (i + 1)..c.num_iters : SaveDue(c, k)}

\* C11: a failure of the progress figure at iteration i does not end the
\* call: nothing is raised because of it, and a run that is not stopped by a
\* later event resamples at i+1..num_iters, writes their snapshots and
\* returns.
C11_PlotFailureIsolated ==
    \A i \in PlotFailed :
        /\ ~(pc = "raised" /\ stop = "PlotError")
        /\ Completed =>
              /\ (i + 1)..cfg.num_iters \subseteq Ended("clean")
              /\ LaterKeys(cfg, i) \subseteq Written("loop")
              /\ ret = <<model, name>>

\* the advisories that the request for progress figures is dropped
NoPlotAdvisories ==
    {j \in LogIndex : log[j].op = "warn" /\ log[j].what = "no_plots"}

\* C12: with save_every_n_iters = 0 the artifact at the run's location is
\* never created or written, no snapshot write or progress figure is made or
\* attempted, a missing project_dir raises nothing, a request for progress
\* figures is dropped with exactly one advisory, and the run ends only by
\* its resampling steps: a completed run has resampled at every index
\* start_iter..num_iters.
C12_NothingSaved ==
    (mode = "fit" /\ cfg.save_every_n_iters = 0) =>
        /\ ckpt = (IF cfg.existing THEN OldCheckpoint ELSE NoFile)
        /\ pc \notin {"save", "plot"}
        /\ \A j \in LogIndex : log[j].op \notin {"save", "plot"}
        /\ stop \notin {"TypeError", "IOError", "PlotError"}
        /\ pc # "start" =>
              /\ ~generate_progress_plots
              /\ Cardinality(NoPlotAdvisories) =
                    (IF cfg.generate_progress_plots THEN 1 ELSE 0)
        /\ Completed => Ended("clean") = cfg.start_iter..cfg.num_iters

C12_Witness ==
    /\ Completed /\ cfg.save_every_n_iters = 0
    /\ cfg.generate_progress_plots /\ cfg.project_dir = None
    /\ cfg.num_iters >= cfg.start_iter + 2
    /\ NoPlotAdvisories # {}
    /\ ckpt = NoFile

\* C14: a call that has returned was ended by completion, divergence or
\* interruption and by nothing else; a fault of the resampling step and a
\* failed checkpoint write leave the call as an exception, without a return
\* value, and the fault or the failed write is the last thing the call did:
\* no resampling step, snapshot write or progress figure follows it.
C14_FaultsPropagate ==
    mode = "fit" =>
        /\ pc = "done" =>
              /\ stop \in {"completed", "diverged", "cancelled"}
              /\ Ended("fault") = {}
              /\ stop = "diverged" <=> Ended("nonfinite") # {}
              /\ stop = "cancelled" <=> Ended("KeyboardInterrupt") # {}
        /\ \A j \in LogIndex :
              (log[j].op = "resample" /\ log[j].what = "fault") =>
                  /\ j = Len(log)
                  /\ pc = "raised" /\ stop = "fault" /\ ret = <<>>
        /\ stop = "IOError" =>
              /\ pc = "raised" /\ ret = <<>>
              /\ \/ log = <<>>
                 \/ log[Len(log)] =
                       [op |-> "resample", what |-> "clean", it |-> iteration]
              /\ iteration \notin Written("loop")

C14_Witness ==
    /\ mode = "fit" /\ pc = "raised" /\ stop = "fault"
    /\ iteration > cfg.start_iter + 1
    /\ Written("loop") # {}
    /\ iteration < cfg.num_iters

\* the artifact as a run found it
FoundCheckpoint == IF cfg.existing THEN OldCheckpoint ELSE NoFile

\* a write under snapshot key i took the artifact from `before` to `after`:
\* nothing but the sub-path model_snapshots/i differs
OnlyKeyWritten(before, after, i) ==
    /\ after.exists = before.exists
    /\ after.metadata = before.metadata
    /\ after.data = before.data
    /\ DOMAIN before.model_snapshots \subseteq DOMAIN after.model_snapshots
    /\ DOMAIN after.model_snapshots \subseteq DOMAIN before.model_snapshots \cup {i}
    /\ \A k \in DOMAIN before.model_snapshots \ {i} :
          after.model_snapshots[k] = before.model_snapshots[k]

\* what the start of a run has done to the artifact
ArtifactAtStart ==
    mode = "fit" =>
        /\ Written("init") \subseteq {cfg.start_iter}
        /\ Written("init") # {} <=>
              (log # <<>> /\ cfg.save_every_n_iters > 0 /\ ~cfg.existing)
        /\ Written("init") # {} =>
              /\ log[1] = [op |-> "save", what |-> "init", it |-> cfg.start_iter]
              /\ ckpt.exists
              /\ ckpt.metadata = "metadata" /\ ckpt.data = "data"
              /\ ckpt.model_snapshots[cfg.start_iter] = InitModel
        /\ cfg.existing =>
              /\ ckpt.exists
              /\ ckpt.metadata = OldCheckpoint.metadata
              /\ ckpt.data = OldCheckpoint.data
              /\ \A k \in DOMAIN OldCheckpoint.model_snapshots :
                    k <= cfg.start_iter =>
                       ckpt.model_snapshots[k] = OldCheckpoint.model_snapshots[k]
        /\ (pc = "iter" /\ iteration = cfg.start_iter) =>
              ckpt = (IF cfg.save_every_n_iters > 0 /\ ~cfg.existing
                      THEN NewCheckpoint(cfg, InitModel) ELSE FoundCheckpoint)

\* what one step after the start does to the artifact
ArtifactStep ==
    (mode = "fit" /\ pc # "start") =>
        IF pc = "save"
        THEN OnlyKeyWritten(ckpt, ckpt', iteration)
        ELSE ckpt' = ckpt

\* C15: the artifact is created before the first iteration, with the initial
\* state under key start_iter, metadata and data, exactly when snapshots are
\* saved and no artifact exists; an existing artifact is left as found at
\* start; every snapshot write of the loop changes nothing but the snapshot
\* under its own key, and no other step changes the artifact.
C15_ArtifactFrame == [](ArtifactAtStart) /\ [][ArtifactStep]_fitProgress

C15_Witness ==
    /\ Completed /\ cfg.existing /\ cfg.start_iter = 1
    /\ Cardinality(Written("loop")) >= 2
    /\ ckpt.model_snapshots[0] = OldModel
    /\ ckpt.metadata = "old_metadata"

IsSave(e) == e.op = "save"

\* the snapshot writes of the run, in the order they were made
SaveEvents == SelectSeq(log, IsSave)

\* C16: the keys of the snapshot writes of a run, the initial write under
\* start_iter included, are strictly increasing in the order of the writes
\* (so no key is written twice), and a write about to be made uses a key
\* greater than every key written before.
C16_KeysIncrease ==
    mode = "fit" =>
        /\ \A a, b \in DOMAIN SaveEvents :
              a < b => SaveEvents[a].it < SaveEvents[b].it
        /\ pc = "save" =>
              \A k \in Written("init") \cup Written("loop") : k < iteration

C16_Witness ==
    /\ mode = "fit" /\ Len(SaveEvents) >= 3
    /\ SaveEvents[1].what = "init"
    /\ SaveEvents[3].it = cfg.num_iters
    /\ cfg.num_iters % cfg.save_every_n_iters # 0

\* the state that i - start_iter + 1 clean resampling steps make of the
\* initial state
RECURSIVE Resampled(_, _)
Resampled(m, n) == IF n = 0 THEN m ELSE Resampled(resample_model(m, {}), n - 1)

\* C20: every snapshot the loop has written under a key i is the state
\* adopted at iteration i: the clean result of the resampling step of
\* iteration i, not the state before that step and not a state with a
\* non-finite leaf; so the highest-keyed snapshot of the loop is an adopted
\* state; and in a completed run with save_every_n_iters > 0 and
\* num_iters > start_iter the snapshot under num_iters is the returned state.
C20_SnapshotsAreAdopted ==
    mode = "fit" =>
        /\ \A i \in Written("loop") :
              /\ i > cfg.start_iter
              /\ i \in DOMAIN adopted /\ i \in SnapshotKeys
              /\ ckpt.model_snapshots[i] = adopted[i]
              /\ adopted[i] = Resampled(InitModel, i - cfg.start_iter + 1)
              /\ ~check_for_nans(ckpt.model_snapshots[i])
        /\ Written("loop") # {} =>
              LET top == CHOOSE i \in Written("loop") :
                            \A k \in Written("loop") : k <= i
              IN \E i \in DOMAIN adopted : ckpt.model_snapshots[top] = adopted[i]
        /\ (Completed /\ cfg.save_every_n_iters > 0
                /\ cfg.num_iters > cfg.start_iter) =>
              /\ cfg.num_iters \in Written("loop")
              /\ cfg.num_iters \in SnapshotKeys
              /\ ckpt.model_snapshots[cfg.num_iters] = ret[1]

C20_Witness ==
    /\ Completed /\ cfg.save_every_n_iters = 2 /\ cfg.num_iters = 3
    /\ Written("loop") = {2, 3}
    /\ ckpt.model_snapshots[3] = ret[1]
    /\ ckpt.model_snapshots[2] # ckpt.model_snapshots[3]

IsResample(e) == e.op = "resample"

\* the calls of the resampling step, in the order they were made
ResampleEvents == SelectSeq(log, IsResample)

\* no resampling step has raised
NoResampleFault == Ended("fault") = {}

\* the call has returned (model, name) in one of the three terminal states
Terminal ==
    /\ mode = "fit" /\ pc = "done"
    /\ stop \in {"completed", "diverged", "cancelled"}
    /\ ret = <<model, name>>
    /\ name = (IF cfg.name = None THEN "timestamp" ELSE cfg.name)

\* the call was left by an exception raised outside the resampling step
RaisedOutsideResample ==
    /\ mode = "fit" /\ pc = "raised"
    /\ stop \in {"TypeError", "IOError", "PlotError"}
    /\ ret = <<>>

\* the resampling steps are made one per index, in increasing order from
\* start_iter, and a run that is not stopped makes one for every index up
\* to num_iters
ResampleOrder ==
    mode = "fit" =>
        /\ \A j \in DOMAIN ResampleEvents :
              ResampleEvents[j].it = cfg.start_iter + j - 1
        /\ Len(ResampleEvents) <= cfg.num_iters - cfg.start_iter + 1
              \/ ResampleEvents = <<>>
        /\ pc = "done" => Terminal
        /\ Completed =>
              /\ \A j \in DOMAIN ResampleEvents : ResampleEvents[j].what = "clean"
              /\ Len(ResampleEvents) =
                    (IF cfg.num_iters >= cfg.start_iter
                     THEN cfg.num_iters - cfg.start_iter + 1 ELSE 0)

\* the call has ended, by a return or by an exception
FitEnded == mode = "fit" /\ pc \in {"done", "raised"}

\* a call that has ended does nothing further
EndedIsFinal ==
    FitEnded =>
        /\ pc' = pc /\ stop' = stop /\ ret' = ret
        /\ log' = log /\ ckpt' = ckpt /\ model' = model

\* C19, original wording: provided no resampling step raises, every run
\* eventually is in one of the terminal states Completed, Stopped(Diverged),
\* Stopped(Cancelled) with (model, name) returned; the resampling steps of a
\* run that is not stopped are one per index start_iter..num_iters in
\* increasing order; a run that has ended does nothing further.
C19_Original ==
    /\ ([]NoResampleFault) => <>Terminal
    /\ []((FitEnded /\ NoResampleFault) => Terminal)
    /\ []ResampleOrder
    /\ [][EndedIsFinal]_fitProgress

\* C19: provided no resampling step raises, every run eventually ends:
\* either in one of the terminal states Completed, Stopped(Diverged),
\* Stopped(Cancelled) with (model, name) returned, or by an exception raised
\* by the construction of the checkpoint path, a snapshot write or the
\* progress figure; the resampling steps of a run that is not stopped are
\* one per index start_iter..num_iters in increasing order; a run that has
\* ended does nothing further.
C19_Terminates ==
    /\ ([]NoResampleFault) => <>(Terminal \/ RaisedOutsideResample)
    /\ []((FitEnded /\ NoResampleFault) => (Terminal \/ RaisedOutsideResample))
    /\ []ResampleOrder
    /\ [][EndedIsFinal]_fitProgress

C19_Witness ==
    /\ Completed /\ Terminal
    /\ cfg.name = None /\ ret[2] = "timestamp"
    /\ cfg.start_iter = 1 /\ cfg.num_iters = 4
    /\ Len(ResampleEvents) = 4
    /\ Written("loop") # {}

----------------------------------------------------------------------------
(* Properties of extract_results *)

Returned == mode = "extract" /\ pc = "returned"

\* the trimmed latent-state length end - start of batch row r
TrimmedLength(r) == cfg.bounds[r][2] - cfg.bounds[r][1]

\* C4: in the returned results every recording's syllable, latent_state,
\* centroid and heading have the time length end - start of its bounds; for
\* bounds (10, 50) and nlags = 5 the latent state and the labels both have
\* length 40.
C4_EqualLengths ==
    Returned =>
        \A r \in DOMAIN cfg.keys :
            LET rec == results[cfg.keys[r]] IN
            /\ Len(rec.latent_state) = TrimmedLength(r)
            /\ Len(rec.centroid) = TrimmedLength(r)
            /\ Len(rec.heading) = TrimmedLength(r)
            /\ Len(rec.syllable) = TrimmedLength(r)
            /\ (cfg.bounds[r] = <<10, 50>> /\ cfg.nlags = 5) =>
                  (Len(rec.latent_state) = 40 /\ Len(rec.syllable) = 40)

\* C5: every recording's syllable array is its label row trimmed over the
\* bounds shifted by (0, nlags) with nlags copies of the first trimmed label
\* put in front: the first nlags entries equal the first trimmed label and
\* every trimmed label follows them.
C5_PadKeepsTrimmed ==
    Returned =>
        \A r \in DOMAIN cfg.keys :
            LET syllable == results[cfg.keys[r]].syllable
                trimmed == Slice(StatesOf(cfg).z[r], cfg.bounds[r][1],
                                 cfg.bounds[r][2] + cfg.nlags)
            IN /\ Len(syllable) = cfg.nlags + Len(trimmed)
               /\ \A i \in 1..Len(syllable) :
                     syllable[i] = IF i <= cfg.nlags THEN trimmed[1]
                                   ELSE trimmed[i - cfg.nlags]

\* C8: a second extraction with persistence, the model state and metadata
\* unchanged, leaves the results artifact as the first extraction left it.
C8_Idempotent ==
    (mode = "extract" /\ ncalls >= 2 /\ cfg.save_results) => art = artBefore

C8_Witness ==
    /\ Returned /\ ncalls = 2 /\ cfg.save_results
    /\ RecordingName(0) \in DOMAIN art
    /\ art[RecordingName(1)] # OldRecord
    /\ Len(art[RecordingName(1)].latent_state) > 1

\* C9: a persisting extraction leaves every record of the artifact whose key
\* is not among the new results as it was, puts the new record under every
\* key of the new results, and adds no other key; an extraction without
\* persistence leaves the artifact as it was.
C9_Merge ==
    (mode = "extract" /\ ncalls >= 1) =>
        IF pc = "returned" /\ cfg.save_results
        THEN /\ DOMAIN art = DOMAIN artBefore \cup DOMAIN results
             /\ \A k \in DOMAIN results : art[k] = results[k]
             /\ \A k \in DOMAIN artBefore \ DOMAIN results : art[k] = artBefore[k]
        ELSE art = artBefore

C9_Witness ==
    /\ Returned /\ ncalls = 1 /\ cfg.save_results
    /\ RecordingName(0) \in DOMAIN art /\ art[RecordingName(0)] = OldRecord
    /\ RecordingName(1) \in DOMAIN artBefore
    /\ artBefore[RecordingName(1)] = OldRecord
    /\ art[RecordingName(1)] # OldRecord
    /\ RecordingName(2) \in DOMAIN art \ DOMAIN artBefore

\* the calls of unbatch a call of extract_results has made: line 236 on the
\* labels with the shifted bounds, and, once line 237 has not raised, lines
\* 240-242 on the latent state, the centroid and the heading with the
\* bounds of the metadata
UnbatchCalls ==
    {[leaf |-> "z", shape1 |-> Shape1(StatesOf(cfg).z),
      bounds |-> ShiftBounds(cfg.bounds, Nlags(cfg))]}
    \cup
    (IF pc = "returned"
     THEN {[leaf |-> l, shape1 |-> Shape1(StatesOf(cfg)[l]), bounds |-> cfg.bounds] :
              l \in {"x", "v", "h"}}
     ELSE {})

\* C21: every call of unbatch that extract_results has made was given
\* bounds whose end is at most the time length of the array it was given;
\* the ends of the label bounds shifted by (0, nlags) are at most the time
\* length of the label array, the row length less nlags.
C21_UnbatchPrecondition ==
    (mode = "extract" /\ ncalls >= 1) =>
        /\ \A u \in UnbatchCalls :
              \A r \in DOMAIN u.bounds : u.bounds[r][2] <= u.shape1
        /\ \A r \in DOMAIN cfg.bounds :
              cfg.bounds[r][2] + cfg.nlags <= cfg.len - cfg.nlags

----------------------------------------------------------------------------
(* Properties of update_hypparams *)

\* the call has ended, by a return or by an exception
HypEnded == mode = "hyp" /\ pc \in {"done", "raised"}

\* the advisories of kind `what` the call has emitted
Advisories(what) == {j \in LogIndex : log[j].what = what}

\* C6: when the call has ended, every requested key whose value in a group
\* was a scalar holds there the new value cast to the type of the old one,
\* and a cast advisory for the key was emitted whenever the type of the new
\* value differs from the type of the old one; 10.0 updated with 5 gives 5.0
\* and the advisory.
C6_TypePreserving ==
    HypEnded =>
        \A i \in DOMAIN cfg.kwargs, g \in DOMAIN cfg.hypparams :
            LET k == cfg.kwargs[i].k
                v == cfg.kwargs[i].v
            IN (k \in DOMAIN cfg.hypparams[g] /\ isscalar(cfg.hypparams[g][k])) =>
                  LET old == cfg.hypparams[g][k] IN
                  /\ hypparams[g][k].t = old.t
                  /\ hypparams[g][k] = Cast(old.t, v)
                  /\ v.t # old.t =>
                        \E j \in Advisories("cast") : log[j].it = <<k>>
                  /\ (old = PyFloatHalves(20) /\ v = PyInt(5)) =>
                        hypparams[g][k] = PyFloatHalves(10)

\* the requested keys that are in no group
Unmatched ==
    {cfg.kwargs[i].k : i \in {j \in DOMAIN cfg.kwargs :
        \A g \in DOMAIN cfg.hypparams : cfg.kwargs[j].k \notin DOMAIN cfg.hypparams[g]}}

\* C7: a call all of whose keys are in no group returns with every
\* hyperparameter of every group as it was and has emitted exactly one
\* advisory, the not-found warning naming the keys.
C7_UnmatchedKey ==
    (HypEnded /\ cfg.kwargs # <<>> /\ Unmatched = {cfg.kwargs[i].k : i \in DOMAIN cfg.kwargs}) =>
        /\ pc = "done"
        /\ hypparams = cfg.hypparams
        /\ ret = <<cfg.hypparams>>
        /\ Len(log) = 1
        /\ log[1].op = "warn" /\ log[1].what = "not_found"
        /\ {log[1].it[j] : j \in DOMAIN log[1].it} = Unmatched

C7_Witness ==
    /\ HypEnded /\ Len(cfg.kwargs) = 1 /\ cfg.kwargs[1].k = "foobar"
    /\ \E g \in DOMAIN hypparams : hypparams[g] # <<>>
    /\ log = <<[op |-> "warn", what |-> "not_found", it |-> <<"foobar">>]>>

\* the keys a not-found advisory names
Named(j) == {log[j].it[q] : q \in DOMAIN log[j].it}

\* C17: when the call has ended, every requested key that a group holds
\* with a non-scalar value is unchanged there and a cannot-be-updated
\* advisory was emitted for it; a not-found advisory was emitted exactly
\* when some requested key is in no group, once, and it names exactly the
\* requested keys that are in no group.
C17_NotFoundExact ==
    HypEnded =>
        /\ \A i \in DOMAIN cfg.kwargs, g \in DOMAIN cfg.hypparams :
              LET k == cfg.kwargs[i].k IN
              (k \in DOMAIN cfg.hypparams[g] /\ ~isscalar(cfg.hypparams[g][k])) =>
                  /\ hypparams[g][k] = cfg.hypparams[g][k]
                  /\ \E j \in Advisories("not_scalar") : log[j].it = <<k>>
        /\ Cardinality(Advisories("not_found")) =
              (IF Unmatched = {} THEN 0 ELSE 1)
        /\ \A j \in Advisories("not_found") : Named(j) = Unmatched

\* the groups that hold key k with a scalar value when the call starts
ScalarGroups(k) ==
    {g \in DOMAIN cfg.hypparams :
        k \in DOMAIN cfg.hypparams[g] /\ isscalar(cfg.hypparams[g][k])}

\* C18: when the call has ended and a requested key is a scalar in two or
\* more groups, the call has returned the structure, nothing was raised,
\* and every one of those groups holds the new value cast to the type of
\* the value it held.
C18_EveryGroupUpdated ==
    HypEnded =>
        \A i \in DOMAIN cfg.kwargs :
            LET k == cfg.kwargs[i].k
                v == cfg.kwargs[i].v
            IN Cardinality(ScalarGroups(k)) >= 2 =>
                  /\ pc = "done" /\ stop = "returned"
                  /\ ret = <<hypparams>>
                  /\ \A g \in ScalarGroups(k) :
                        hypparams[g][k] = Cast(cfg.hypparams[g][k].t, v)

----------------------------------------------------------------------------
(* Properties of apply_model *)

\* the last state the loop of apply_model adopted, the fresh state if none
LastClean ==
    IF DOMAIN adopted = {} THEN InitModel
    ELSE adopted[CHOOSE i \in DOMAIN adopted : \A k \in DOMAIN adopted : k <= i]

\* C13: apply_model never creates or writes the checkpoint artifact; it
\* calls the resampling step at most num_iters times and every time with
\* states_only set; and a call whose loop ended by completion, divergence
\* or interruption ends by returning the results extracted from the last
\* state it adopted, the fresh state if it adopted none: the only calls
\* that end by an exception are those whose destination is missing and
\* those whose resampling step raised.
C13_InferenceOnly ==
    mode = "apply" =>
        /\ ckpt = FoundCheckpoint
        /\ \A j \in LogIndex : log[j].op \notin {"save", "plot"}
        /\ Len(ResampleEvents) <= cfg.num_iters
        /\ \A j \in DOMAIN ResampleEvents : ResampleEvents[j].states_only
        /\ pc = "raised" => stop \in {"AssertionError", "fault"}
        /\ pc = "done" =>
              /\ stop \in {"completed", "diverged", "cancelled"}
              /\ ~check_for_nans(LastClean)
              /\ ret = <<ExtractOf(LastClean, cfg)>>

====
